---------------------------- MODULE Spec2Model ----------------------------
(***************************************************************************)
(* Model of gulpfile.js of machinist: the configuration values read at     *)
(* load, the two pre-flight checks, and the tasks publish-assets,          *)
(* publish-story and combineJson.                                          *)
(*                                                                         *)
(* Strings are sequences of one-character strings, so that the regular     *)
(* expressions, the whitespace replacement, the path joins and the key     *)
(* prefixes are computed character by character.                           *)
(*                                                                         *)
(* The plugins the tasks are wired from are modelled by what they do to    *)
(* the stream and to the bucket:                                           *)
(*   git-assert-clean  asks git and calls its callback in a later turn of  *)
(*                     the event loop; an error thrown in the callback is  *)
(*                     uncaught and ends the process;                      *)
(*   gulp.src (gulp 3) streams the entries matched by the globs, and       *)
(*                     passes over a path that does not exist;             *)
(*   gulp-prompt       confirm asks at the first entry; on yes the entries *)
(*                     go on, on no the stream goes no further;            *)
(*   gulp-rename       joins base, dirname and basename+extname;           *)
(*   gulp-awspublish   publish skips an entry without contents, skips a    *)
(*                     file found in the cache file or identical on the    *)
(*                     bucket (with createOnly: any file whose key         *)
(*                     exists) and uploads the others; sync(prefix), at    *)
(*                     the end of the stream, deletes the keys starting    *)
(*                     with prefix that no file of the stream has; cache   *)
(*                     notes each file's etag in the cache file;           *)
(*   gulp-jsoncombine  parses each file into data[name], name being the    *)
(*                     relative path without ".json", emits an error for   *)
(*                     a file that does not parse, and at the end of a     *)
(*                     stream that held a file emits the converter's       *)
(*                     result.                                             *)
(***************************************************************************)
EXTENDS Naturals, Sequences, FiniteSets, TLC

VARIABLES
  task,                 \* the gulp task of this run
  pc,                   \* position of the run
  yearString,           \* config.projectInitDate.year   (a JS value)
  monthString,          \* config.projectInitDate.month  (a JS value)
  configProjectNameProp,\* config.projectName            (characters)
  convertedProjectName, \* line 39
  objectsLocation,      \* line 40
  renormalized,         \* the line-39 conversion applied to its own result
  thrown,               \* the error a check has thrown, or "none"
  treeDirty,            \* the git working tree has uncommitted changes
  assertCleanCb,        \* the callback given to assertClean: idle, pending, done
  localFiles,           \* the files of the local directory: file id -> contents
  todo,                 \* entries of gulp.src not yet through the pipeline
  answer,               \* the operator's answer to the confirmation: none, yes, no
  remote,               \* the bucket: key -> object
  remote0,              \* the bucket when the run started
  passed,               \* keys of the files that reached the sync stage
  cache,                \* the publisher's cache file: key -> etag
  runs,                 \* runs of the task completed so far
  events,               \* what the run has done so far, in order
  embedJson,            \* <dest>/embed.json: whether it exists, and its text
  mainJson,             \* <dest>/styles/main.json: whether it exists, and its text
  remoteData            \* <dest>/remoteData.json: whether it exists, and its text

cfgVars == <<yearString, monthString, configProjectNameProp>>
derivedVars == <<convertedProjectName, objectsLocation, renormalized>>
pubVars == <<treeDirty, assertCleanCb, localFiles, todo, answer, remote, remote0,
             passed, cache, runs, events>>
jsonVars == <<embedJson, mainJson, remoteData>>
vars == <<task, pc, cfgVars, derivedVars, thrown, pubVars, jsonVars>>

----------------------------------------------------------------------------
(* Bounds of the model *)

MaxYearLen == 5
MaxMonthLen == 3
MaxNameLen == 4
MaxContent == 2
MaxRuns == 2

----------------------------------------------------------------------------
(* Strings *)

RECURSIVE SeqsUpTo(_, _)
SeqsUpTo(A, n) ==
  IF n = 0 THEN {<<>>}
  ELSE LET shorter == SeqsUpTo(A, n - 1)
       IN shorter \cup {Append(s, c) : s \in {t \in shorter : Len(t) = n - 1}, c \in A}

Digits == {"0", "1", "2", "3", "4", "5", "6", "7", "8", "9"}
IsDigit(c) == c \in Digits

IsPrefix(p, s) == Len(p) <= Len(s) /\ SubSeq(s, 1, Len(p)) = p

----------------------------------------------------------------------------
(* JavaScript values of the configuration: a type tag and String(value) *)

StrVal(s) == [t |-> "string", s |-> s]
NumVal(s) == [t |-> "number", s |-> s]
Undefined == [t |-> "undefined", s |-> <<"u", "n", "d", "e", "f", "i", "n", "e", "d">>]
Null == [t |-> "object", s |-> <<"n", "u", "l", "l">>]

\* String(n) of a non-negative integer: digits, no leading zero unless "0"
IsNumeral(s) ==
  /\ Len(s) >= 1
  /\ \A i \in 1..Len(s) : IsDigit(s[i])
  /\ (Len(s) > 1 => s[1] # "0")

TypeOf(v) == v.t

\* JS truthiness of a configuration value (used by the second check, line 62)
Falsy(v) ==
  \/ v.t = "undefined"
  \/ v.t = "object"
  \/ (v.t = "string" /\ v.s = <<>>)
  \/ (v.t = "number" /\ v.s = <<"0">>)

----------------------------------------------------------------------------
(* The regular expressions of checkProjectInitDate. RegExp.test applies    *)
(* ToString to its argument, so each is given String(value).               *)

\* new RegExp('^[12][0-9]{3}$')
ReYearTest(s) ==
  /\ Len(s) >= 4
  /\ s[1] \in {"1", "2"}
  /\ \A i \in 2..4 : IsDigit(s[i])
  /\ Len(s) = 4

\* new RegExp('^(1[0-2]|0[1-9])$')
ReMonthTest(s) ==
  /\ Len(s) >= 2
  /\ \/ (s[1] = "1" /\ s[2] \in {"0", "1", "2"})
     \/ (s[1] = "0" /\ s[2] \in (Digits \ {"0"}))
  /\ Len(s) = 2

CheckNoTypeof(y, m) ==
  IF ~ReYearTest(y.s) \/ ~ReMonthTest(m.s)
    THEN "malformed"
    ELSE IF Falsy(y) \/ Falsy(m) THEN "missing" ELSE "none"

\* checkProjectInitDate, lines 54-65: the error it throws, or "none"
CheckProjectInitDate(y, m) ==
  IF ~ReYearTest(y.s) \/ TypeOf(y) # "string" \/ TypeOf(m) # "string" \/ ~ReMonthTest(m.s)
    THEN "malformed"
    ELSE IF Falsy(y) \/ Falsy(m) THEN "missing" ELSE "none"

----------------------------------------------------------------------------
(* Lines 39-40: the project-name conversion and the publish path           *)

Whitespace == {" ", "\t", "\n"}
IsSpace(c) == c \in Whitespace

ToLowerChar(c) ==
  CASE c = "A" -> "a"
    [] c = "B" -> "b"
    [] c = "M" -> "m"
    [] c = "S" -> "s"
    [] OTHER -> c

ToLowerCase(s) == [i \in 1..Len(s) |-> ToLowerChar(s[i])]

\* s.replace(/\s/g, '-'): one hyphen per whitespace character
ReplaceEachWhitespace(s) == [i \in 1..Len(s) |-> IF IsSpace(s[i]) THEN "-" ELSE s[i]]

\* s.replace(/\s+/g, '-'): scanning left to right, each match is a maximal
\* run of whitespace and is replaced by one hyphen
RECURSIVE ReplaceWsFrom(_, _)
ReplaceWsFrom(s, i) ==
  IF i > Len(s) THEN <<>>
  ELSE IF IsSpace(s[i])
    THEN IF i > 1 /\ IsSpace(s[i - 1])
           THEN ReplaceWsFrom(s, i + 1)
           ELSE <<"-">> \o ReplaceWsFrom(s, i + 1)
    ELSE <<s[i]>> \o ReplaceWsFrom(s, i + 1)

ReplaceWhitespaceRuns(s) == ReplaceWsFrom(s, 1)

ConvertEachWhitespace(name) == ToLowerCase(ReplaceEachWhitespace(name))

\* line 39
ConvertedProjectName(name) == ToLowerCase(ReplaceWhitespaceRuns(name))

Slash == <<"/">>
StrMachinistDist == <<"m", "a", "c", "h", "i", "n", "i", "s", "t", "/", "d", "i", "s", "t">>

\* line 40: `/machinist/dist/${yearString}/${monthString}/${convertedProjectName}/`
ObjectsLocation(y, m, slug) ==
  Slash \o StrMachinistDist \o Slash \o y.s \o Slash \o m.s \o Slash \o slug \o Slash

\* line 115: `machinist/dist/${yearString}/${monthString}/${convertedProjectName}`
SyncPrefix(y, m, slug) ==
  StrMachinistDist \o Slash \o y.s \o Slash \o m.s \o Slash \o slug

----------------------------------------------------------------------------
(* Input domains *)

YearChars == {"0", "2", "a"}
MonthChars == {"0", "1", "3"}
NameChars == {"a", "B", " ", "\t", "-"}

YearStrings == SeqsUpTo(YearChars, MaxYearLen)
MonthStrings == SeqsUpTo(MonthChars, MaxMonthLen)
Names == SeqsUpTo(NameChars, MaxNameLen)

ValuesOf(strings) ==
  {StrVal(s) : s \in strings}
    \cup {NumVal(s) : s \in {t \in strings : IsNumeral(t)}}
    \cup {Undefined, Null}

YearValues == ValuesOf(YearStrings)
MonthValues == ValuesOf(MonthStrings)

----------------------------------------------------------------------------
(* Loading the module: lines 36-40 *)

EmptyMap == [k \in {} |-> 0]

\* the variables of the publish tasks and of combineJson in a run of another task
PubIdle ==
  /\ treeDirty = FALSE
  /\ assertCleanCb = "idle"
  /\ localFiles = EmptyMap
  /\ todo = {}
  /\ answer = "none"
  /\ remote = EmptyMap
  /\ remote0 = EmptyMap
  /\ passed = {}
  /\ cache = EmptyMap
  /\ runs = 0
  /\ events = <<>>

File(text) == [exists |-> TRUE, text |-> text]
NoFile == [exists |-> FALSE, text |-> <<>>]

JsonIdle ==
  /\ embedJson = NoFile
  /\ mainJson = NoFile
  /\ remoteData = NoFile

Load ==
  /\ pc = "init"
  /\ convertedProjectName' = ConvertedProjectName(configProjectNameProp)
  /\ objectsLocation' =
       ObjectsLocation(yearString, monthString, ConvertedProjectName(configProjectNameProp))
  /\ pc' = "loaded"
  /\ UNCHANGED <<task, cfgVars, renormalized, thrown, pubVars, jsonVars>>

----------------------------------------------------------------------------
(* Specification of the date check: every pair of configuration values *)

InitDate ==
  /\ task = "checkProjectInitDate"
  /\ pc = "init"
  /\ yearString \in YearValues
  /\ monthString \in MonthValues
  /\ configProjectNameProp = <<"a">>
  /\ convertedProjectName = <<>>
  /\ objectsLocation = <<>>
  /\ renormalized = <<>>
  /\ thrown = "none"
  /\ PubIdle
  /\ JsonIdle

RunCheckProjectInitDate ==
  /\ task = "checkProjectInitDate"
  /\ pc = "loaded"
  /\ thrown' = CheckProjectInitDate(yearString, monthString)
  /\ pc' = IF CheckProjectInitDate(yearString, monthString) = "none" THEN "checked" ELSE "failed"
  /\ UNCHANGED <<task, cfgVars, derivedVars, pubVars, jsonVars>>

NextDate == Load \/ RunCheckProjectInitDate

SpecDate == InitDate /\ [][NextDate]_vars

----------------------------------------------------------------------------
(* Specification of the name conversion: every project name *)

InitName ==
  /\ task = "convertedProjectName"
  /\ pc = "init"
  /\ yearString = StrVal(<<"2", "0", "0", "2">>)
  /\ monthString \in {StrVal(<<"0", "1">>), StrVal(<<"1", "0">>)}
  /\ configProjectNameProp \in Names
  /\ convertedProjectName = <<>>
  /\ objectsLocation = <<>>
  /\ renormalized = <<>>
  /\ thrown = "none"
  /\ PubIdle
  /\ JsonIdle

\* the conversion of line 39 applied to a name that is already converted
Renormalize ==
  /\ task = "convertedProjectName"
  /\ pc = "loaded"
  /\ renormalized' = ConvertedProjectName(convertedProjectName)
  /\ pc' = "renormalized"
  /\ UNCHANGED <<task, cfgVars, convertedProjectName, objectsLocation, thrown,
                 pubVars, jsonVars>>

NextName == Load \/ Renormalize

SpecName == InitName /\ [][NextName]_vars

----------------------------------------------------------------------------
(* Local files. A file has the parts gulp-rename sees (dirname, basename,   *)
(* extname) and its contents; contents 0 is a directory entry (null).       *)

StoryFileIds == {"a.js", "img/b.png", "i.html", "img"}
AssetFileIds == {"c.png", "d.json", "e.js"}

Dirname(f) ==
  CASE f = "img/b.png" -> <<"i", "m", "g">>
    [] OTHER -> <<".">>

Basename(f) ==
  CASE f = "a.js" -> <<"a">>
    [] f = "img/b.png" -> <<"b">>
    [] f = "i.html" -> <<"i">>
    [] f = "img" -> <<"i", "m", "g">>
    [] f = "c.png" -> <<"c">>
    [] f = "d.json" -> <<"d">>
    [] f = "e.js" -> <<"e">>

Extname(f) ==
  CASE f = "a.js" -> <<".", "j", "s">>
    [] f = "img/b.png" -> <<".", "p", "n", "g">>
    [] f = "i.html" -> <<".", "h", "t", "m", "l">>
    [] f = "img" -> <<>>
    [] f = "c.png" -> <<".", "p", "n", "g">>
    [] f = "d.json" -> <<".", "j", "s", "o", "n">>
    [] f = "e.js" -> <<".", "j", "s">>

ExtAi == <<".", "a", "i">>
ExtHtml == <<".", "h", "t", "m", "l">>
ExtJsx == <<".", "j", "s", "x">>
ExtPng == <<".", "p", "n", "g">>
ExtJson == <<".", "j", "s", "o", "n">>
ExtJs == <<".", "j", "s">>

\* lines 106-109: config.dest + '/**' without '**/*.{ai,html,jsx}'
StoryGlob(f) == Extname(f) \notin {ExtAi, ExtHtml, ExtJsx}

\* the entries gulp.src streams in publish-story
StoryEntries(files) == {f \in DOMAIN files : StoryGlob(f)}

\* line 79: the extensions of the assets glob (those the model's files have)
AssetsGlob(f) == Extname(f) \in {ExtPng, ExtJson}

\* line 77: the files the gzip filter lets through to awspublish.gzip()
GzipFilter(f) == Extname(f) \in {ExtJson, ExtJs}

----------------------------------------------------------------------------
(* gulp-rename: the new path is Path.join(base, dirname, basename+extname), *)
(* and the key of the object is the path relative to base.                  *)

RECURSIVE SegmentsFrom(_, _, _)
SegmentsFrom(s, i, cur) ==
  IF i > Len(s) THEN <<cur>>
  ELSE IF s[i] = "/" THEN <<cur>> \o SegmentsFrom(s, i + 1, <<>>)
  ELSE SegmentsFrom(s, i + 1, Append(cur, s[i]))

Segments(s) == SegmentsFrom(s, 1, <<>>)

\* path normalisation: empty and "." segments vanish, ".." removes the one before
RECURSIVE NormalizeFrom(_, _, _)
NormalizeFrom(segs, i, acc) ==
  IF i > Len(segs) THEN acc
  ELSE IF segs[i] = <<>> \/ segs[i] = <<".">> THEN NormalizeFrom(segs, i + 1, acc)
  ELSE IF segs[i] = <<".", ".">> /\ Len(acc) > 0
    THEN NormalizeFrom(segs, i + 1, SubSeq(acc, 1, Len(acc) - 1))
  ELSE NormalizeFrom(segs, i + 1, Append(acc, segs[i]))

RECURSIVE JoinSegments(_)
JoinSegments(segs) ==
  IF Len(segs) = 0 THEN <<>>
  ELSE IF Len(segs) = 1 THEN segs[1]
  ELSE segs[1] \o Slash \o JoinSegments(Tail(segs))

RelativeKey(dirname, f) ==
  JoinSegments(NormalizeFrom(Segments(dirname) \o <<Basename(f) \o Extname(f)>>, 1, <<>>))

\* lines 111-113: path.dirname = objectsLocation + path.dirname
StoryKey(f) == RelativeKey(objectsLocation \o Dirname(f), f)

StrCdnassetsProjects ==
  <<"c", "d", "n", "a", "s", "s", "e", "t", "s", "/", "p", "r", "o", "j", "e", "c", "t", "s">>

\* lines 80-82: `/cdnassets/projects/${yearString}/${monthString}/${convertedProjectName}/${path.dirname}`
AssetKey(f) ==
  RelativeKey(Slash \o StrCdnassetsProjects \o Slash \o yearString.s \o Slash \o monthString.s
                \o Slash \o convertedProjectName \o Slash \o Dirname(f), f)

----------------------------------------------------------------------------
(* gulp-awspublish. An object is its body and its content encoding; the     *)
(* etag of an object is taken to identify it.                               *)

Obj(body, enc) == [body |-> body, enc |-> enc]

Put(bucket, key, obj) ==
  [k \in DOMAIN bucket \cup {key} |-> IF k = key THEN obj ELSE bucket[k]]

Without(bucket, keys) == [k \in DOMAIN bucket \ keys |-> bucket[k]]

\* publisher.publish(headers, options): the state it gives the file
PublishState(bucket, cch, key, obj, createOnly) ==
  IF key \in DOMAIN cch /\ cch[key] = obj THEN "cache"
  ELSE IF key \in DOMAIN bucket /\ (createOnly \/ bucket[key] = obj) THEN "skip"
  ELSE IF key \in DOMAIN bucket THEN "update"
  ELSE "create"

Uploads(state) == state \in {"create", "update"}

SyncDeleteAll(bucket, prefix, kept) ==
  {k \in DOMAIN bucket : IsPrefix(prefix, k)}

\* publisher.sync(prefix): the keys it deletes once every file has passed
SyncDeletions(bucket, prefix, kept) ==
  {k \in DOMAIN bucket : IsPrefix(prefix, k) /\ k \notin kept}

Ev(e, k, ks) == [e |-> e, k |-> k, ks |-> ks]

----------------------------------------------------------------------------
(* publish-story, lines 96-120 *)

AfterAnswerDropping(ans) == IF ans = "yes" THEN "upload" ELSE "flush"

\* line 110, prompt.confirm: on yes the files go on; on no nothing goes on,
\* neither a file nor the end of the stream
AfterAnswer(ans) == IF ans = "yes" THEN "upload" ELSE "declined"

\* lines 97-109: cleanStaging() hands its callback to assertClean and returns,
\* checkProjectInitDate() throws or returns, and the pipeline is built
StoryStart ==
  /\ task = "publish-story"
  /\ pc = "loaded"
  /\ assertCleanCb' = "pending"
  /\ LET err == CheckProjectInitDate(yearString, monthString)
         entries == StoryEntries(localFiles)
     IN IF err # "none"
          THEN /\ thrown' = err
               /\ pc' = "failed"
               /\ UNCHANGED <<todo, events>>
          ELSE /\ todo' = entries
               /\ pc' = IF entries = {} THEN "flush" ELSE "prompt"
               /\ events' = Append(events, Ev("dateOk", <<>>, {}))
               /\ UNCHANGED thrown
  /\ UNCHANGED <<task, cfgVars, derivedVars, treeDirty, localFiles, answer, remote,
                 remote0, passed, cache, runs, jsonVars>>

\* lines 46-50: the callback of assertClean, run when git has answered
AssertCleanCallback ==
  /\ assertCleanCb = "pending"
  /\ pc \notin {"failed", "crashed"}
  /\ assertCleanCb' = "done"
  /\ IF treeDirty
       THEN /\ thrown' = "dirty"
            /\ pc' = "crashed"
            /\ events' = Append(events, Ev("cleanErr", <<>>, {}))
       ELSE /\ events' = Append(events, Ev("cleanOk", <<>>, {}))
            /\ UNCHANGED <<thrown, pc>>
  /\ UNCHANGED <<task, cfgVars, derivedVars, treeDirty, localFiles, todo, answer, remote,
                 remote0, passed, cache, runs, jsonVars>>

\* line 110: the operator answers the confirmation
PromptAnswer ==
  /\ task = "publish-story"
  /\ pc = "prompt"
  /\ \E ans \in {"yes", "no"} :
       /\ answer' = ans
       /\ pc' = AfterAnswer(ans)
       /\ events' = Append(events, Ev(ans, <<>>, {}))
  /\ UNCHANGED <<task, cfgVars, derivedVars, thrown, treeDirty, assertCleanCb, localFiles,
                 todo, remote, remote0, passed, cache, runs, jsonVars>>

\* lines 111-115: one entry is renamed, published and noted by sync
StoryPublishEntry ==
  /\ task = "publish-story"
  /\ pc = "upload"
  /\ \E f \in todo :
       LET key == StoryKey(f)
           obj == Obj(localFiles[f], "none")
           st == PublishState(remote, cache, key, obj, FALSE)
       IN /\ todo' = todo \ {f}
          /\ pc' = IF todo \ {f} = {} THEN "flush" ELSE "upload"
          /\ IF localFiles[f] = 0
               THEN UNCHANGED <<remote, passed, events>>
               ELSE /\ passed' = passed \cup {key}
                    /\ IF Uploads(st)
                         THEN /\ remote' = Put(remote, key, obj)
                              /\ events' = Append(events, Ev("put", key, {}))
                         ELSE UNCHANGED <<remote, events>>
  /\ UNCHANGED <<task, cfgVars, derivedVars, thrown, treeDirty, assertCleanCb, localFiles,
                 answer, remote0, cache, runs, jsonVars>>

\* line 115: the stream has ended and sync deletes
StorySyncFlush ==
  /\ task = "publish-story"
  /\ pc = "flush"
  /\ LET dels == SyncDeletions(remote,
                   SyncPrefix(yearString, monthString, convertedProjectName), passed)
     IN /\ remote' = Without(remote, dels)
        /\ events' = Append(events, Ev("sync", <<>>, dels))
  /\ pc' = "synced"
  /\ UNCHANGED <<task, cfgVars, derivedVars, thrown, treeDirty, assertCleanCb, localFiles,
                 todo, answer, remote0, passed, cache, runs, jsonVars>>

\* lines 117-119: 'finish' logs publishedStoryMsg
StoryFinish ==
  /\ task = "publish-story"
  /\ pc = "synced"
  /\ events' = Append(events, Ev("log", <<>>, {}))
  /\ runs' = runs + 1
  /\ pc' = "done"
  /\ UNCHANGED <<task, cfgVars, derivedVars, thrown, treeDirty, assertCleanCb, localFiles,
                 todo, answer, remote, remote0, passed, cache, jsonVars>>

----------------------------------------------------------------------------
(* Specification of publish-story *)

Content == 1..MaxContent

Year2002 == <<"2", "0", "0", "2">>
Month01 == <<"0", "1">>
SlugA == <<"a">>
SlugAB == <<"a", "-", "b">>

KeyIn(slug, rest) == SyncPrefix(StrVal(Year2002), StrVal(Month01), slug) \o Slash \o rest

KeyAJs(slug) == KeyIn(slug, <<"a", ".", "j", "s">>)
KeyBPng(slug) == KeyIn(slug, <<"i", "m", "g", "/", "b", ".", "p", "n", "g">>)
KeyIHtml(slug) == KeyIn(slug, <<"i", ".", "h", "t", "m", "l">>)
KeyOldCss(slug) == KeyIn(slug, <<"o", "l", "d", ".", "c", "s", "s">>)

\* what the story bucket may hold before the run
StoryBuckets ==
  {[k \in S |-> Obj(IF k = KeyAJs(SlugA) THEN c ELSE 1, "none")] :
     S \in SUBSET {KeyAJs(SlugA), KeyBPng(SlugA), KeyIHtml(SlugA), KeyOldCss(SlugA),
                   KeyAJs(SlugAB)},
     c \in Content}

StoryLocals ==
  {[f \in S |-> IF f = "a.js" THEN c ELSE IF f = "img" THEN 0 ELSE 1] :
     S \in SUBSET StoryFileIds, c \in Content}

InitStory ==
  /\ task = "publish-story"
  /\ pc = "init"
  /\ yearString \in {StrVal(Year2002), NumVal(Year2002)}
  /\ monthString = StrVal(Month01)
  /\ configProjectNameProp \in {<<"a">>, <<"a", " ", "B">>}
  /\ convertedProjectName = <<>>
  /\ objectsLocation = <<>>
  /\ renormalized = <<>>
  /\ thrown = "none"
  /\ treeDirty \in BOOLEAN
  /\ assertCleanCb = "idle"
  /\ localFiles \in StoryLocals
  /\ todo = {}
  /\ answer = "none"
  /\ remote \in StoryBuckets
  /\ remote0 = remote
  /\ passed = {}
  /\ cache = EmptyMap
  /\ runs = 0
  /\ events = <<>>
  /\ JsonIdle

NextStory ==
  \/ Load
  \/ StoryStart
  \/ AssertCleanCallback
  \/ PromptAnswer
  \/ StoryPublishEntry
  \/ StorySyncFlush
  \/ StoryFinish

SpecStory == InitStory /\ [][NextStory]_vars

----------------------------------------------------------------------------
(* publish-assets, lines 68-92 *)

PublishOptionsOverwrite == [simulate |-> FALSE, createOnly |-> FALSE]

\* line 86: {simulate: SIM, createOnly: true}
PublishOptionsAssets == [simulate |-> FALSE, createOnly |-> TRUE]

\* line 79: the stream of asset files is built
AssetsStart ==
  /\ task = "publish-assets"
  /\ pc = "loaded"
  /\ todo' = {f \in DOMAIN localFiles : AssetsGlob(f)}
  /\ pc' = IF {f \in DOMAIN localFiles : AssetsGlob(f)} = {} THEN "finishing" ELSE "upload"
  /\ remote0' = remote
  /\ UNCHANGED <<task, cfgVars, derivedVars, thrown, treeDirty, assertCleanCb, localFiles,
                 answer, remote, passed, cache, runs, events, jsonVars>>

\* lines 80-87: one file is renamed, gzipped if the filter takes it, published
\* and entered in the cache file
AssetsPublishEntry ==
  /\ task = "publish-assets"
  /\ pc = "upload"
  /\ \E f \in todo :
       LET key == AssetKey(f)
           obj == Obj(localFiles[f], IF GzipFilter(f) THEN "gzip" ELSE "none")
           st == PublishState(remote, cache, key, obj, PublishOptionsAssets.createOnly)
       IN /\ todo' = todo \ {f}
          /\ pc' = IF todo \ {f} = {} THEN "finishing" ELSE "upload"
          /\ passed' = passed \cup {key}
          /\ cache' = IF st = "cache" THEN cache ELSE Put(cache, key, obj)
          /\ IF Uploads(st) /\ ~PublishOptionsAssets.simulate
               THEN /\ remote' = Put(remote, key, obj)
                    /\ events' = Append(events, Ev("put", key, {}))
               ELSE UNCHANGED <<remote, events>>
  /\ UNCHANGED <<task, cfgVars, derivedVars, thrown, treeDirty, assertCleanCb, localFiles,
                 answer, remote0, runs, jsonVars>>

\* lines 89-91: 'finish' logs publishedCdnMsg
AssetsFinish ==
  /\ task = "publish-assets"
  /\ pc = "finishing"
  /\ runs' = runs + 1
  /\ pc' = "done"
  /\ UNCHANGED <<task, cfgVars, derivedVars, thrown, treeDirty, assertCleanCb, localFiles,
                 todo, answer, remote, remote0, passed, cache, events, jsonVars>>

\* the contents a local file may be given between two runs
Edits(files) ==
  {files} \cup
    {[f \in DOMAIN files |-> IF f = g THEN c ELSE files[f]] :
       g \in DOMAIN files \cap {"c.png", "d.json"}, c \in 1..MaxContent}

\* the task is run again, the local files edited or not in between
AssetsRerun ==
  /\ task = "publish-assets"
  /\ pc = "done"
  /\ runs < MaxRuns
  /\ localFiles' \in Edits(localFiles)
  /\ passed' = {}
  /\ pc' = "loaded"
  /\ UNCHANGED <<task, cfgVars, derivedVars, thrown, treeDirty, assertCleanCb, todo, answer,
                 remote, remote0, cache, runs, events, jsonVars>>

KeyCPng ==
  StrCdnassetsProjects \o <<"/", "2", "0", "0", "2", "/", "0", "1", "/", "a", "/", "c", ".", "p", "n", "g">>
KeyDJson ==
  StrCdnassetsProjects \o <<"/", "2", "0", "0", "2", "/", "0", "1", "/", "a", "/", "d", ".", "j", "s", "o", "n">>

AssetBuckets ==
  {[k \in S |-> Obj(IF k = KeyCPng THEN c ELSE d, IF k = KeyCPng THEN "none" ELSE "gzip")] :
     S \in SUBSET {KeyCPng, KeyDJson}, c \in 1..MaxContent, d \in 1..MaxContent}

AssetLocals ==
  {[f \in S |-> IF f = "c.png" THEN c ELSE IF f = "d.json" THEN d ELSE 1] :
     S \in SUBSET AssetFileIds, c \in 1..MaxContent, d \in 1..MaxContent}

InitAssets ==
  /\ task = "publish-assets"
  /\ pc = "init"
  /\ yearString \in {StrVal(<<"2", "0", "0", "2">>), NumVal(<<"2", "0", "0", "2">>)}
  /\ monthString = StrVal(<<"0", "1">>)
  /\ configProjectNameProp = <<"a">>
  /\ convertedProjectName = <<>>
  /\ objectsLocation = <<>>
  /\ renormalized = <<>>
  /\ thrown = "none"
  /\ treeDirty \in BOOLEAN
  /\ assertCleanCb = "idle"
  /\ localFiles \in AssetLocals
  /\ todo = {}
  /\ answer = "none"
  /\ remote \in AssetBuckets
  /\ remote0 = remote
  /\ passed = {}
  /\ cache = EmptyMap
  /\ runs = 0
  /\ events = <<>>
  /\ JsonIdle

NextAssets == Load \/ AssetsStart \/ AssetsPublishEntry \/ AssetsFinish \/ AssetsRerun

SpecAssets == InitAssets /\ [][NextAssets]_vars

----------------------------------------------------------------------------
(* combineJson, lines 145-152. A JSON text is a sequence of tokens; a value *)
(* is a number or an object of numbers, its members in insertion order.     *)

JsonNumbers == {"1", "2"}
JsonKeys == {"\"a\"", "\"b\""}

SyntaxError == [ok |-> FALSE, kind |-> "error", num |-> "", members |-> <<>>]
JsonNumber(n) == [ok |-> TRUE, kind |-> "number", num |-> n, members |-> <<>>]
JsonObject(ms) == [ok |-> TRUE, kind |-> "object", num |-> "", members |-> ms]

\* whitespace between the tokens of a text is insignificant
StripWs(t) == SelectSeq(t, LAMBDA x : x # " ")

\* obj[key] = n on an object whose members keep their insertion order
SetMember(ms, key, n) ==
  IF \E i \in 1..Len(ms) : ms[i][1] = key
    THEN [i \in 1..Len(ms) |-> IF ms[i][1] = key THEN <<key, n>> ELSE ms[i]]
    ELSE Append(ms, <<key, n>>)

\* the members of an object from token i of t, after a "{" or a ","
RECURSIVE ParseMembers(_, _, _)
ParseMembers(t, i, ms) ==
  IF i + 3 > Len(t) THEN SyntaxError
  ELSE IF t[i] \notin JsonKeys \/ t[i + 1] # ":" \/ t[i + 2] \notin JsonNumbers THEN SyntaxError
  ELSE IF t[i + 3] = "}"
    THEN IF i + 3 = Len(t) THEN JsonObject(SetMember(ms, t[i], t[i + 2])) ELSE SyntaxError
  ELSE IF t[i + 3] = "," THEN ParseMembers(t, i + 4, SetMember(ms, t[i], t[i + 2]))
  ELSE SyntaxError

\* JSON.parse
JsonParse(text) ==
  LET t == StripWs(text)
  IN IF Len(t) = 0 THEN SyntaxError
     ELSE IF Len(t) = 1 THEN (IF t[1] \in JsonNumbers THEN JsonNumber(t[1]) ELSE SyntaxError)
     ELSE IF t[1] # "{" THEN SyntaxError
     ELSE IF Len(t) = 2 THEN (IF t[2] = "}" THEN JsonObject(<<>>) ELSE SyntaxError)
     ELSE ParseMembers(t, 2, <<>>)

RECURSIVE StringifyMembers(_)
StringifyMembers(ms) ==
  IF Len(ms) = 0 THEN <<>>
  ELSE <<ms[1][1], ":", ms[1][2]>>
         \o (IF Len(ms) = 1 THEN <<>> ELSE <<",">> \o StringifyMembers(Tail(ms)))

\* JSON.stringify of a parsed value
JsonStringify(v) ==
  IF v.kind = "number" THEN <<v.num>> ELSE <<"{">> \o StringifyMembers(v.members) \o <<"}">>

JsUndefined == [ok |-> TRUE, kind |-> "undefined", num |-> "", members |-> <<>>]

\* JSON.stringify of the object literal {k1: v1, k2: v2}: a member whose
\* value is undefined is left out
StringifyPair(k1, v1, k2, v2) ==
  LET m1 == IF v1.kind = "undefined" THEN <<>> ELSE <<k1, ":">> \o JsonStringify(v1)
      m2 == IF v2.kind = "undefined" THEN <<>> ELSE <<k2, ":">> \o JsonStringify(v2)
  IN <<"{">> \o m1 \o (IF m1 # <<>> /\ m2 # <<>> THEN <<",">> ELSE <<>>) \o m2 \o <<"}">>

\* gulp-jsoncombine: data[name] = JSON.parse(contents) for each file of the
\* stream, name being the file's relative path without ".json"; a file that
\* does not exist is not in the stream
CombinedData(embed, main) ==
  [embed |-> IF embed.exists THEN JsonParse(embed.text) ELSE JsUndefined,
   main |-> IF main.exists THEN JsonParse(main.text) ELSE JsUndefined,
   styles |-> JsUndefined]

ConverterStylesFromStyles(data) ==
  StringifyPair("\"embed\"", data.embed, "\"styles\"", data.styles)

\* line 150: (data) => Buffer.from(JSON.stringify({embed: data.embed, styles: data.main}))
Converter(data) == StringifyPair("\"embed\"", data.embed, "\"styles\"", data.main)

\* lines 146-151: the two files are read and parsed, and at the end of the
\* stream the converter's result is written to <dest>/remoteData.json; a
\* parse error is emitted as an 'error' event, which nothing handles
CombineJson ==
  /\ task = "combineJson"
  /\ pc = "loaded"
  /\ LET data == CombinedData(embedJson, mainJson)
     IN IF ~data.embed.ok \/ ~data.main.ok
          THEN /\ pc' = "failed"
               /\ thrown' = "parse"
               /\ UNCHANGED remoteData
          ELSE /\ pc' = "combined"
               /\ remoteData' = IF embedJson.exists \/ mainJson.exists
                                  THEN File(Converter(data))
                                  ELSE remoteData
               /\ UNCHANGED thrown
  /\ UNCHANGED <<task, cfgVars, derivedVars, pubVars, embedJson, mainJson>>

DocA1 == <<"{", "\"a\"", ":", "1", "}">>
DocB2 == <<"{", "\"b\"", ":", "2", "}">>
DocA1Spaced == <<" ", "{", " ", "\"a\"", ":", " ", "1", " ", "}", " ">>
DocEmptyObject == <<"{", "}">>
DocA1B2 == <<"{", "\"a\"", ":", "1", ",", "\"b\"", ":", "2", "}">>
DocA1A2 == <<"{", "\"a\"", ":", "1", ",", "\"a\"", ":", "2", "}">>
DocNumber == <<"2">>
DocUnclosed == <<"{", "\"a\"", ":", "1">>
DocBareKey == <<"{", "a", ":", "1", "}">>
DocTrailingComma == <<"{", "\"a\"", ":", "1", ",", "}">>
DocEmptyText == <<>>
DocTwoValues == <<"{", "}", "{", "}">>

WellFormedDocs == {DocA1, DocB2, DocA1Spaced, DocEmptyObject, DocA1B2, DocA1A2, DocNumber}
MalformedDocs == {DocUnclosed, DocBareKey, DocTrailingComma, DocEmptyText, DocTwoValues}

SourceFiles == {NoFile} \cup {File(t) : t \in WellFormedDocs \cup MalformedDocs}

InitJson ==
  /\ task = "combineJson"
  /\ pc = "init"
  /\ yearString = StrVal(<<"2", "0", "0", "2">>)
  /\ monthString = StrVal(<<"0", "1">>)
  /\ configProjectNameProp = <<"a">>
  /\ convertedProjectName = <<>>
  /\ objectsLocation = <<>>
  /\ renormalized = <<>>
  /\ thrown = "none"
  /\ PubIdle
  /\ embedJson \in SourceFiles
  /\ mainJson \in SourceFiles
  /\ remoteData = NoFile

NextJson == Load \/ CombineJson

SpecJson == InitJson /\ [][NextJson]_vars

----------------------------------------------------------------------------
(* Claims about checkProjectInitDate and convertedProjectName *)

ValidYears == {<<a, b, c, d>> : a \in {"1", "2"}, b \in Digits, c \in Digits, d \in Digits}

ValidMonths ==
  {<<"0", "1">>, <<"0", "2">>, <<"0", "3">>, <<"0", "4">>, <<"0", "5">>, <<"0", "6">>,
   <<"0", "7">>, <<"0", "8">>, <<"0", "9">>, <<"1", "0">>, <<"1", "1">>, <<"1", "2">>}

\* C5: checkProjectInitDate returns without throwing exactly when the year is
\* a string of the form [12]ddd and the month is a string 01..12; for every
\* other pair of values (other strings, empty, absent, null, numbers) it throws.
C5_DateCheckAcceptsExactlyValid ==
  pc \in {"checked", "failed"} =>
    /\ (pc = "checked") <=> (thrown = "none")
    /\ (thrown = "none") <=>
         /\ yearString.t = "string"
         /\ yearString.s \in ValidYears
         /\ monthString.t = "string"
         /\ monthString.s \in ValidMonths

\* a valid pair was accepted, after the check ran
C5_Witness ==
  /\ pc = "checked"
  /\ yearString = StrVal(<<"2", "0", "0", "2">>)
  /\ monthString = StrVal(<<"1", "0">>)

UpperCase == {"A", "B", "M", "S"}

\* the number of whitespace runs of s that start at or before position i
RunStartsUpTo(s, i) ==
  Cardinality({j \in 1..i : IsSpace(s[j]) /\ (j = 1 \/ ~IsSpace(s[j - 1]))})

\* the number of non-whitespace characters of s at or before position i
NonSpaceUpTo(s, i) == Cardinality({j \in 1..i : ~IsSpace(s[j])})

\* C6: the converted project name is lower-case, holds no whitespace, holds
\* one hyphen for each maximal run of whitespace of the name and the other
\* characters in their order; converting a converted name changes nothing;
\* the publish path is /machinist/dist/<year>/<month>/<converted name>/.
C6_NameConversion ==
  pc \in {"loaded", "renormalized"} =>
    LET name == configProjectNameProp
        slug == convertedProjectName
    IN /\ \A i \in 1..Len(slug) : ~IsSpace(slug[i]) /\ slug[i] \notin UpperCase
       /\ Len(slug) = RunStartsUpTo(name, Len(name)) + NonSpaceUpTo(name, Len(name))
       /\ \A i \in 1..Len(name) :
            LET at == RunStartsUpTo(name, i) + NonSpaceUpTo(name, i)
            IN IF IsSpace(name[i])
                 THEN slug[at] = "-"
                 ELSE slug[at] = (IF name[i] = "B" THEN "b" ELSE name[i])
       /\ (pc = "renormalized" => renormalized = slug)
       /\ objectsLocation =
            <<"/">> \o StrMachinistDist \o <<"/">> \o yearString.s \o <<"/">>
              \o monthString.s \o <<"/">> \o slug \o <<"/">>

\* a name with a run of two whitespace characters and an upper-case letter
C6_Witness ==
  /\ pc = "renormalized"
  /\ configProjectNameProp = <<"B", " ", "\t", "a">>
  /\ convertedProjectName = <<"b", "-", "a">>

----------------------------------------------------------------------------
(* Claims about publish-story *)

HasEvent(e) == \E i \in 1..Len(events) : events[i].e = e

PutKeys == {events[i].k : i \in {j \in 1..Len(events) : events[j].e = "put"}}

\* C1: when the working tree is dirty or the project date is invalid, nothing
\* is uploaded to and nothing is deleted from the story bucket.
C1_FailedCheckNoRemoteCall ==
  (task = "publish-story"
     /\ (treeDirty \/ CheckProjectInitDate(yearString, monthString) # "none")) =>
    remote = remote0

\* C2: when the operator declines the confirmation, no file is uploaded and
\* the sync step deletes nothing: the bucket is as it was.
C2_DeclineLeavesBucket ==
  answer = "no" =>
    /\ remote = remote0
    /\ ~HasEvent("put")
    /\ ~HasEvent("sync")

\* declined, with a changed local file waiting and a remote object that a
\* sync would have deleted
C2_Witness ==
  /\ answer = "no"
  /\ pc = "declined"
  /\ assertCleanCb = "done"
  /\ \E f \in todo :
       /\ localFiles[f] # 0
       /\ PublishState(remote, cache, StoryKey(f), Obj(localFiles[f], "none"), FALSE) = "update"
  /\ KeyOldCss(convertedProjectName) \in DOMAIN remote

\* the key the object of a local file is expected to have
ExpectedKey(f) ==
  CASE f = "a.js" -> KeyAJs(convertedProjectName)
    [] f = "img/b.png" -> KeyBPng(convertedProjectName)
    [] f = "i.html" -> KeyIHtml(convertedProjectName)

\* the files the run streams and publishes: not *.ai, *.html, *.jsx, not directories
Published == {f \in DOMAIN localFiles : f \in {"a.js", "img/b.png"}}

\* C4: after a confirmed run the remote objects under the prefix are the
\* published files: a remote object under the prefix with no published file is
\* deleted, one identical to its published file is neither deleted nor
\* rewritten, and no file of this run is deleted by sync.
C4_SyncMirrors ==
  (task = "publish-story" /\ answer = "yes" /\ pc \in {"synced", "done"}) =>
    LET prefix == StrMachinistDist \o <<"/">> \o yearString.s \o <<"/">> \o monthString.s
                    \o <<"/">> \o convertedProjectName
        keys == {ExpectedKey(f) : f \in Published}
        deleted == UNION {events[i].ks : i \in 1..Len(events)}
    IN /\ {k \in DOMAIN remote : IsPrefix(prefix, k)} = keys
       /\ {k \in DOMAIN remote : IsPrefix(prefix \o <<"/">>, k)} = keys
       /\ \A f \in Published : remote[ExpectedKey(f)] = Obj(localFiles[f], "none")
       /\ \A k \in DOMAIN remote0 : (IsPrefix(prefix, k) /\ k \notin keys) => k \in deleted
       /\ \A f \in Published :
            LET k == ExpectedKey(f)
            IN (k \in DOMAIN remote0 /\ remote0[k] = Obj(localFiles[f], "none")) =>
                 (k \notin PutKeys /\ k \notin deleted)
       /\ PutKeys \cap deleted = {}
       /\ PutKeys \subseteq DOMAIN remote

\* C4 as first stated, a local counterpart being any file of the build
\* directory: a remote object identical to a local file is neither deleted
\* nor rewritten.
C4_AnyLocalCounterpartKept ==
  (task = "publish-story" /\ answer = "yes" /\ pc \in {"synced", "done"}) =>
    LET deleted == UNION {events[i].ks : i \in 1..Len(events)}
    IN \A f \in DOMAIN localFiles \ {"img"} :
         LET k == ExpectedKey(f)
         IN (k \in DOMAIN remote0 /\ remote0[k] = Obj(localFiles[f], "none")) =>
              (k \in DOMAIN remote /\ k \notin PutKeys /\ k \notin deleted)

\* a confirmed run that uploaded a changed file, skipped an identical one and
\* deleted a stale object
C4_Witness ==
  /\ task = "publish-story" /\ answer = "yes" /\ pc = "done"
  /\ KeyAJs(convertedProjectName) \in PutKeys
  /\ KeyAJs(convertedProjectName) \in DOMAIN remote0
  /\ "img/b.png" \in DOMAIN localFiles
  /\ KeyBPng(convertedProjectName) \in DOMAIN remote0
  /\ KeyBPng(convertedProjectName) \notin PutKeys
  /\ KeyOldCss(convertedProjectName) \in DOMAIN remote0
  /\ KeyOldCss(convertedProjectName) \notin DOMAIN remote

\* C7: the prefix prepended to every file's directory (objectsLocation) and
\* the prefix given to sync are the same string.
C7_SamePrefixString ==
  (task = "publish-story" /\ pc # "init") =>
    objectsLocation = SyncPrefix(yearString, monthString, convertedProjectName)

\* the second half of C7: every key that reaches sync lies under sync's prefix
KeysUnderSyncPrefix ==
  task = "publish-story" =>
    \A k \in passed : IsPrefix(SyncPrefix(yearString, monthString, convertedProjectName), k)

\* what the missing trailing slash of sync's prefix costs: a run of project
\* "a" does not leave the objects of project "a-b" alone
OtherProjectKept ==
  (task = "publish-story" /\ KeyAJs(SlugAB) \in DOMAIN remote0) => KeyAJs(SlugAB) \in DOMAIN remote

FirstIndex(e) == CHOOSE i \in 1..Len(events) : events[i].e = e /\ \A j \in 1..(i - 1) : events[j].e # e

\* C10: a run that logs the completion message went through validation,
\* confirmation, upload, sync, log in this order: both checks had passed
\* before the confirmation was answered, nothing was uploaded before it,
\* sync deleted only after every upload, and the log came after sync.
C10_OrderedRun ==
  (task = "publish-story" /\ HasEvent("log")) =>
    /\ HasEvent("yes") =>
         /\ HasEvent("dateOk") /\ FirstIndex("dateOk") < FirstIndex("yes")
         /\ HasEvent("cleanOk") /\ FirstIndex("cleanOk") < FirstIndex("yes")
    /\ \A i \in 1..Len(events) :
         events[i].e = "put" => (HasEvent("yes") /\ FirstIndex("yes") < i)
    /\ HasEvent("sync")
    /\ \A i \in 1..Len(events) : events[i].e = "put" => i < FirstIndex("sync")
    /\ FirstIndex("sync") < FirstIndex("log")

\* the ordering of C10 without its demand on the cleanliness check
OrderedApartFromCleanCheck ==
  (task = "publish-story" /\ HasEvent("log")) =>
    /\ HasEvent("dateOk") /\ FirstIndex("dateOk") = 1
    /\ \A i \in 1..Len(events) :
         events[i].e = "put" => (HasEvent("yes") /\ FirstIndex("yes") < i)
    /\ HasEvent("sync")
    /\ \A i \in 1..Len(events) : events[i].e = "put" => i < FirstIndex("sync")
    /\ FirstIndex("sync") < FirstIndex("log")

----------------------------------------------------------------------------
(* Claims about publish-assets and combineJson *)

\* C3: publish-assets never overwrites a remote object: every key the asset
\* bucket held when a run started still holds the same object, also when the
\* task is run a second time on the same or an edited local file.
C3_CreateOnly ==
  task = "publish-assets" =>
    \A k \in DOMAIN remote0 : k \in DOMAIN remote /\ remote[k] = remote0[k]

\* a second run has ended; the first one created the object of c.png, the file
\* was edited in between, and the object is still the one the first run made
C3_Witness ==
  /\ task = "publish-assets"
  /\ pc = "done"
  /\ runs = 2
  /\ KeyCPng \in PutKeys
  /\ "c.png" \in DOMAIN localFiles
  /\ remote[KeyCPng] # Obj(localFiles["c.png"], "none")

\* the text JSON.stringify gives back for each well-formed document
Canonical(text) ==
  CASE text = DocA1 -> <<"{", "\"a\"", ":", "1", "}">>
    [] text = DocB2 -> <<"{", "\"b\"", ":", "2", "}">>
    [] text = DocA1Spaced -> <<"{", "\"a\"", ":", "1", "}">>
    [] text = DocEmptyObject -> <<"{", "}">>
    [] text = DocA1B2 -> <<"{", "\"a\"", ":", "1", ",", "\"b\"", ":", "2", "}">>
    [] text = DocA1A2 -> <<"{", "\"a\"", ":", "2", "}">>
    [] text = DocNumber -> <<"2">>

\* C8: for two well-formed source documents combineJson writes one object
\* with exactly the keys "embed" and "styles", holding the content of
\* embed.json and of styles/main.json.
C8_CombinedOutput ==
  (task = "combineJson" /\ pc \in {"combined", "failed"}
     /\ embedJson.exists /\ embedJson.text \in WellFormedDocs
     /\ mainJson.exists /\ mainJson.text \in WellFormedDocs) =>
    /\ pc = "combined"
    /\ remoteData.exists
    /\ remoteData.text =
         <<"{", "\"embed\"", ":">> \o Canonical(embedJson.text)
           \o <<",", "\"styles\"", ":">> \o Canonical(mainJson.text) \o <<"}">>

\* embed.json = {"a":1} and main.json = {"b":2} gave {"embed":{"a":1},"styles":{"b":2}}
C8_Witness ==
  /\ task = "combineJson"
  /\ pc = "combined"
  /\ embedJson = File(DocA1)
  /\ mainJson = File(DocB2)
  /\ remoteData = File(<<"{", "\"embed\"", ":", "{", "\"a\"", ":", "1", "}", ",",
                         "\"styles\"", ":", "{", "\"b\"", ":", "2", "}", "}">>)

\* C9: when a source document is missing or malformed the task fails and
\* writes no remoteData.json.
C9_FailsWithoutOutput ==
  (task = "combineJson" /\ pc \in {"combined", "failed"}
     /\ (~embedJson.exists \/ embedJson.text \notin WellFormedDocs
           \/ ~mainJson.exists \/ mainJson.text \notin WellFormedDocs)) =>
    /\ pc = "failed"
    /\ ~remoteData.exists

\* the part of C9 about malformed documents: a malformed document makes the
\* task fail with nothing written
MalformedFailsWithoutOutput ==
  (task = "combineJson" /\ pc \in {"combined", "failed"}
     /\ ((embedJson.exists /\ embedJson.text \in MalformedDocs)
           \/ (mainJson.exists /\ mainJson.text \in MalformedDocs))) =>
    /\ pc = "failed"
    /\ ~remoteData.exists

=============================================================================
